---- MODULE Spec2Model ----
(***************************************************************************)
(* State-machine model of the NASA APOD explorer server (src/server.js):   *)
(* the rate limiter, the request-id middleware, the date validator, the    *)
(* APOD route handler with its error categorisation, the documentation,    *)
(* health and 404 routes, and the final error-handling middleware.         *)
(***************************************************************************)
EXTENDS Integers, Sequences, FiniteSets, Bags, TLC

VARIABLES
    env,            \* process.env.NODE_ENV
    today,          \* what `new Date()` yields in validateDate: UTC civil date + ms of day
    hits,           \* the limiter's in-memory store: hits per client IP in its current window
    requestCount,   \* `let requestCount` of server.js
    entered,        \* history: how many requests ran the first statement of the APOD handler
    passed,         \* history: requests per client IP that got past the limiter in its current window
    rejected,       \* history: whether the limiter has ever answered the client IP with 429
    reqs,           \* the requests being served: a bag of request records
    vdate,          \* validateDate taken alone: its req.params.date
    vres            \* validateDate taken alone: what it did ("pending" before the call)

vars == <<env, today, hits, requestCount, entered, passed, rejected, reqs, vdate, vres>>

-----------------------------------------------------------------------------
(* Bounds of the model *)

MaxMonth == 13          \* month fields 00..MaxMonth are tried
MaxDay == 32            \* day fields 00..MaxDay are tried

-----------------------------------------------------------------------------
(* Date strings: sequences of one-character strings *)

Digits == <<"0", "1", "2", "3", "4", "5", "6", "7", "8", "9">>

DigitChars == {Digits[i] : i \in 1..10}

DigitValue(c) == (CHOOSE i \in 1..10 : Digits[i] = c) - 1

Pad2(n) == <<Digits[((n \div 10) % 10) + 1], Digits[(n % 10) + 1]>>

Pad4(n) == Pad2(n \div 100) \o Pad2(n % 100)

\* the text "YYYY-MM-DD" for the three numbers
DateString(y, m, d) == Pad4(y) \o <<"-">> \o Pad2(m) \o <<"-">> \o Pad2(d)

\* req.params.date when the optional route parameter is missing (undefined: falsy)
Absent == <<>>

\* /^\d{4}-\d{2}-\d{2}$/.test(date)
dateRegex(s) ==
    /\ Len(s) = 10
    /\ \A i \in {1, 2, 3, 4, 6, 7, 9, 10} : s[i] \in DigitChars
    /\ s[5] = "-"
    /\ s[8] = "-"

NumberAt(s, from, to) ==
    LET RECURSIVE Acc(_, _)
        Acc(i, v) == IF i > to THEN v ELSE Acc(i + 1, 10 * v + DigitValue(s[i]))
    IN  Acc(from, 0)

-----------------------------------------------------------------------------
(* new Date(string) and the comparison of Date objects, as Node's engine    *)
(* computes them for a string that matches dateRegex.                       *)

IsLeap(y) == (y % 4 = 0) /\ ((y % 100 # 0) \/ (y % 400 = 0))

DaysInMonth(y, m) ==
    IF m = 2 THEN (IF IsLeap(y) THEN 29 ELSE 28)
    ELSE IF m \in {4, 6, 9, 11} THEN 30 ELSE 31

\* days from 1970-01-01 to January 1st of year y (ECMAScript DayFromYear)
DayFromYear(y) ==
    365 * (y - 1970) + ((y - 1969) \div 4) - ((y - 1901) \div 100) + ((y - 1601) \div 400)

\* days from January 1st of year y to the first of month m (1..12)
DaysBeforeMonth(y, m) ==
    LET RECURSIVE Sum(_)
        Sum(k) == IF k >= m THEN 0 ELSE DaysInMonth(y, k) + Sum(k + 1)
    IN  Sum(1)

\* ECMAScript MakeDay: a day field past the end of the month runs into the next one
MakeDay(y, m, d) == DayFromYear(y) + DaysBeforeMonth(y, m) + (d - 1)

NaN == [nan |-> TRUE]

\* new Date("YYYY-MM-DD"): the date-only ISO form reads as UTC midnight; the engine
\* takes months 1..12 and days 1..31 and answers Invalid Date (NaN) for anything else.
\* A time value is kept as (day number, ms within the day): the product does not fit
\* the model checker's integers.
ParseDate(s) ==
    LET y == NumberAt(s, 1, 4)
        m == NumberAt(s, 6, 7)
        d == NumberAt(s, 9, 10)
    IN  IF m \in 1..12 /\ d \in 1..31
        THEN [nan |-> FALSE, day |-> MakeDay(y, m, d), ms |-> 0]
        ELSE NaN

\* the time value of the current instant
NowValue(t) == [nan |-> FALSE, day |-> MakeDay(t.y, t.m, t.d), ms |-> t.ms]

\* a > b on Date objects: number comparison of the time values, false when one is NaN
DateGreater(a, b) ==
    /\ ~a.nan
    /\ ~b.nan
    /\ (a.day > b.day \/ (a.day = b.day /\ a.ms > b.ms))

DateLess(a, b) == DateGreater(b, a)

\* new Date('1995-06-16')
minDate == ParseDate(DateString(1995, 6, 16))

\* validateDate, the middleware: "next" when it calls next(), else the 400 it sends
validateDate(date, now) ==
    IF date = Absent THEN "next"
    ELSE IF ~dateRegex(date) THEN "format"
    ELSE LET selectedDate == ParseDate(date)
         IN  IF DateGreater(selectedDate, NowValue(now)) THEN "future"
             ELSE IF DateLess(selectedDate, minDate) THEN "tooEarly"
             ELSE "next"

-----------------------------------------------------------------------------
(* The inputs tried *)

Years == {0, 1995, 2023, 2024, 9999}

WellShaped == {DateString(y, m, d) : y \in Years, m \in 0..MaxMonth, d \in 0..MaxDay}

\* strings that are not of the shape dddd-dd-dd
IllShaped ==
    LET good == DateString(2024, 1, 15)
    IN  { SubSeq(good, 1, 9),                         \* 2024-01-1
          good \o <<"0">>,                            \* 2024-01-150
          [good EXCEPT ![5] = "/", ![8] = "/"],       \* 2024/01/15
          [good EXCEPT ![1] = "x"],                   \* x024-01-15
          [good EXCEPT ![10] = " "],                  \* 2024-01-1<space>
          SubSeq(good, 1, 7),                         \* 2024-01
          <<"t", "o", "d", "a", "y">>,
          Pad2(15) \o <<"-">> \o Pad2(1) \o <<"-">> \o Pad4(2024) }   \* 15-01-2024

ValidatorInputs == {Absent} \cup WellShaped \cup IllShaped

Instant(y, m, d, ms) == [y |-> y, m |-> m, d |-> d, ms |-> ms]

\* current instants tried (UTC)
Todays ==
    { Instant(2023, 3, 1, 0), Instant(2023, 3, 1, 43200000), Instant(2024, 2, 29, 1),
      Instant(2024, 12, 31, 86399999), Instant(1995, 6, 16, 0) }

-----------------------------------------------------------------------------
(* Bounds of the served workload *)

MaxInFlight == 2        \* requests served concurrently
MaxCount == 2           \* requestCount is followed up to this value
MaxBurst == 2           \* Spec: hits per IP and window are followed up to this value
MaxOver == 2            \* SpecLimiter: hits past the limit that are followed

-----------------------------------------------------------------------------
(* Configuration *)

\* variant: the limit off by one
MaxHits_Lax == 100 + 1

\* rateLimit({ max: 100 })
MaxHits == 100

\* process.env.NASA_API_KEY || 'DEMO_KEY'
NASA_API_KEY == "DEMO_KEY"

\* values of process.env.NODE_ENV tried ("undefined": the variable is not set)
Environments == {"undefined", "development", "production"}

IPs == {"10.0.0.1", "10.0.0.2"}

Paths == {"/", "/health", "/api/apod", "/nonexistent"}

RequestIds == {"req_1700000000000_k3x9q2m1a", "req_1700000000001_z8w4e7r2b"}

\* req.requestId before the logging middleware has run
NoId == "undefined"

-----------------------------------------------------------------------------
(* Requests and responses *)

NoResponse == [status |-> 0, body |-> [unsent |-> TRUE]]

NoError == [kind |-> "none"]

NoFault == [name |-> "none", message |-> "none"]

NotClassified == [errorType |-> "none", statusCode |-> 0, userMessage |-> "none", threw |-> FALSE]

\* a request as it reaches the first middleware
Incoming(ip, path, date) ==
    [ pc |-> "running", ip |-> ip, path |-> path, date |-> date, requestId |-> NoId,
      stages |-> <<"received">>, upstreamCalls |-> 0, sent |-> 0, response |-> NoResponse,
      error |-> NoError, classified |-> NotClassified, fault |-> NoFault, counted |-> FALSE ]

\* res.status(status).json(body): every call sends a response
Send(r, status, body) ==
    [r EXCEPT !.sent = @ + 1,
              !.response = IF r.sent = 0 THEN [status |-> status, body |-> body] ELSE @,
              !.pc = "responded",
              !.stages = Append(@, "responded")]

Stage(r, s) == [r EXCEPT !.stages = Append(@, s)]

-----------------------------------------------------------------------------
(* Rate limiter: app.use(limiter) is the first middleware of every route *)

\* variant: the limiter mounted on the API route only
LimiterApplies_ApiOnly(path) == path = "/api/apod"

\* app.use(limiter) without a path: every request goes through it
LimiterApplies(path) == TRUE

\* the store's answer to one more hit of a key
Increment(h, ip) == [h EXCEPT ![ip] = @ + 1]

\* over the limit: the configured message is sent with status 429
LimiterRejects(totalHits) == totalHits > MaxHits

LimiterMessage ==
    [ success |-> FALSE,
      error |-> [ message |-> "Too many requests from this IP, please try again later.",
                  type |-> "RATE_LIMIT_ERROR" ] ]

-----------------------------------------------------------------------------
(* Logging middleware: assigns req.requestId *)

Logger(r, id) == [r EXCEPT !.requestId = id]

-----------------------------------------------------------------------------
(* validateDate as a middleware of the APOD route *)

ValidationMessage(v) ==
    IF v = "format" THEN "Invalid date format. Please use YYYY-MM-DD format."
    ELSE IF v = "future" THEN "Date cannot be in the future."
    ELSE "Date must be after June 16, 1995 (APOD start date)."

ValidationBody(v) ==
    [ success |-> FALSE,
      error |-> [ message |-> ValidationMessage(v), type |-> "VALIDATION_ERROR",
                  field |-> "date" ] ]

\* variant: a failed check sends its response without returning
NextCalled_Always(v) == TRUE

\* each failed check returns the response; only the end of the function calls next()
NextCalled(v) == v = "next"

RunValidateDate(r, now) ==
    LET v == validateDate(r.date, now)
        r1 == Stage(r, "validating")
    IN  IF v = "next" THEN r1 ELSE Send(Stage(r1, "failed"), 400, ValidationBody(v))

-----------------------------------------------------------------------------
(* Routes answered without an upstream call *)

HealthBody(r, count, e) ==
    [ status |-> "OK", service |-> "NASA APOD API", version |-> "1.0.0",
      environment |-> IF e = "undefined" THEN "development" ELSE e,
      apiKey |-> IF NASA_API_KEY = "DEMO_KEY" THEN "DEMO_KEY" ELSE "CUSTOM_KEY",
      requestCount |-> count, requestId |-> r.requestId ]

RootBody(r) ==
    [ success |-> TRUE, message |-> "Welcome to NASA APOD Explorer API", version |-> "1.0.0",
      endpoints |-> "static", documentation |-> "static", requestId |-> r.requestId ]

\* `Route ${req.originalUrl} not found.`
NotFoundMessage(path) == IF path = "/nonexistent" THEN "Route /nonexistent not found." ELSE "Route not found."

NotFoundBody(r) ==
    [ success |-> FALSE,
      error |-> [ message |-> NotFoundMessage(r.path), type |-> "NOT_FOUND_ERROR",
                  status |-> 404 ] ]

-----------------------------------------------------------------------------
(* The upstream call and its outcomes *)

NullBody == [null |-> TRUE]

\* an APOD record / an upstream error body with or without error_message
ApodBody == [null |-> FALSE, title |-> "X", url |-> "https://apod.nasa.gov/x.jpg"]

MessageBody == [null |-> FALSE, error_message |-> "upstream says no"]

PlainBody == [null |-> FALSE]

NoUpstreamResponse == [present |-> FALSE]

UpstreamResponse(status, data) == [present |-> TRUE, status |-> status, data |-> data]

\* what axios.get rejects with: error.code and error.response
AxiosError(code, response) == [kind |-> "axios", code |-> code, response |-> response]

\* a TypeError raised inside the try block (response.data.title on a null body)
ThrownInTry == [kind |-> "thrown", code |-> "undefined", response |-> NoUpstreamResponse]

\* the failures the served workload draws from
ServedErrors ==
    { AxiosError("ECONNABORTED", NoUpstreamResponse),
      AxiosError("ENOTFOUND", NoUpstreamResponse),
      AxiosError("undefined", NoUpstreamResponse),
      AxiosError("ERR_BAD_REQUEST", UpstreamResponse(429, PlainBody)),
      AxiosError("ERR_BAD_REQUEST", UpstreamResponse(400, MessageBody)),
      AxiosError("ERR_BAD_REQUEST", UpstreamResponse(400, NullBody)),
      AxiosError("ERR_BAD_REQUEST", UpstreamResponse(403, PlainBody)),
      AxiosError("ERR_BAD_REQUEST", UpstreamResponse(404, PlainBody)),
      AxiosError("ERR_BAD_RESPONSE", UpstreamResponse(500, PlainBody)) }

SuccessBodies == {ApodBody, NullBody}

\* variant: the counter assigned instead of incremented
requestCountAfter_Assign(c) == 1

\* the request counter after the handler's first statement, requestCount++
requestCountAfter(c) == c + 1

\* the APOD handler up to its await: count, build the URL, issue the GET
HandlerEntry(r) ==
    [Stage(r, "fetching") EXCEPT !.pc = "fetching", !.upstreamCalls = @ + 1, !.counted = TRUE]

-----------------------------------------------------------------------------
(* The catch block of the APOD handler *)

HasMessage(data) == "error_message" \in DOMAIN data

\* nasaData.error_message || fallback
MessageOr(data, fallback) == IF HasMessage(data) THEN data.error_message ELSE fallback

\* `NASA API error: ${nasaStatus}`
DefaultApiMessage(status) ==
    IF status = 404 THEN "NASA API error: 404"
    ELSE IF status = 302 THEN "NASA API error: 302"
    ELSE "NASA API error: <status>"

Classified(type, code, msg) ==
    [errorType |-> type, statusCode |-> code, userMessage |-> msg, threw |-> FALSE]

\* reading a property of null throws a TypeError
ClassifyThrew == [errorType |-> "none", statusCode |-> 0, userMessage |-> "none", threw |-> TRUE]

\* lines 173-211: errorType, statusCode and userMessage for the caught error
Categorize(error) ==
    IF error.code = "ECONNABORTED"
    THEN Classified("TIMEOUT_ERROR", 408, "Request timeout - NASA API took too long to respond.")
    ELSE IF error.code = "ENOTFOUND" \/ error.code = "ECONNREFUSED"
    THEN Classified("NETWORK_ERROR", 503, "Unable to connect to NASA API. Please try again later.")
    ELSE IF error.response.present
    THEN LET nasaStatus == error.response.status
             nasaData == error.response.data
         IN  IF nasaStatus = 429
             THEN Classified("RATE_LIMIT_ERROR", 429,
                             "NASA API rate limit exceeded. Please try again later.")
             ELSE IF nasaStatus = 400
             THEN IF nasaData.null THEN ClassifyThrew
                  ELSE Classified("VALIDATION_ERROR", 400,
                                  MessageOr(nasaData, "Invalid request to NASA API."))
             ELSE IF nasaStatus = 403
             THEN Classified("AUTH_ERROR", 403, "Invalid API key or access denied.")
             ELSE IF nasaStatus >= 500
             THEN Classified("NASA_SERVER_ERROR", 503,
                             "NASA API is currently unavailable. Please try again later.")
             ELSE IF nasaData.null THEN ClassifyThrew
                  ELSE Classified("NASA_API_ERROR", nasaStatus,
                                  MessageOr(nasaData, DefaultApiMessage(nasaStatus)))
    ELSE Classified("UNKNOWN_ERROR", 500,
                    "An unexpected error occurred while fetching APOD data.")

TypeErrorOfNull ==
    [name |-> "TypeError", message |-> "Cannot read properties of null (reading 'error_message')"]

\* `apiUrl` is declared with let inside the try block: the catch block's errorLog
\* reads a name that is not in scope
ReferenceErrorOfApiUrl == [name |-> "ReferenceError", message |-> "apiUrl is not defined"]

\* the error the catch block itself throws on its way to res.status().json(): the
\* TypeError of the categorisation, else the ReferenceError of errorLog
CatchBlockThrows(c) ==
    IF c.threw THEN TypeErrorOfNull ELSE ReferenceErrorOfApiUrl

CatchBody(r, c) ==
    [ success |-> FALSE,
      error |-> [ message |-> c.userMessage, type |-> c.errorType, status |-> c.statusCode,
                  requestId |-> r.requestId ] ]

-----------------------------------------------------------------------------
(* The error-handling middleware, reached through asyncHandler's catch(next) *)

\* variant: everything but production counts as development
isDevelopment_NotProduction(e) == e # "production"

\* process.env.NODE_ENV === 'development'
isDevelopment(e) == e = "development"

ErrorInfo(r, fault, e) ==
    IF isDevelopment(e)
    THEN [ message |-> fault.message, type |-> "INTERNAL_SERVER_ERROR", status |-> 500,
           requestId |-> r.requestId, stack |-> fault.name ]
    ELSE [ message |-> "Internal server error", type |-> "INTERNAL_SERVER_ERROR",
           status |-> 500, requestId |-> r.requestId ]

ErrorMiddleware(r, fault, e) ==
    Send([r EXCEPT !.fault = fault], 500, [success |-> FALSE, error |-> ErrorInfo(r, fault, e)])

\* variant: a failed call is issued once more before it is answered
HandleFailure_Retry(r, error, e) ==
    IF r.upstreamCalls < 2
    THEN [r EXCEPT !.upstreamCalls = @ + 1]
    ELSE ErrorMiddleware([r EXCEPT !.error = error], ReferenceErrorOfApiUrl, e)

\* catch (error) { ... }: categorise, log, answer; what it throws goes to next(error)
HandleFailure(r, error, e) ==
    LET c == Categorize(error)
        r1 == [Stage(r, "failed") EXCEPT !.pc = "running", !.error = error, !.classified = c]
        thrown == CatchBlockThrows(c)
    IN  IF thrown = NoFault
        THEN Send(r1, c.statusCode, CatchBody(r1, c))
        ELSE ErrorMiddleware(r1, thrown, e)

\* the rest of the try block once axios.get has resolved with `data`
HandleSuccess(r, data, e) ==
    IF data.null
    THEN HandleFailure(r, ThrownInTry, e)
    ELSE Send([Stage(r, "success") EXCEPT !.pc = "running"], 200,
              [success |-> TRUE, data |-> data, requestId |-> r.requestId])

-----------------------------------------------------------------------------
(* The served workload *)

\* dates asked of /api/apod/:date?
ServedDates ==
    { Absent, DateString(2024, 1, 15), DateString(1995, 6, 15), <<"t", "o", "d", "a", "y">> }

ServedToday == Instant(2024, 12, 31, 43200000)

Init ==
    /\ env \in Environments
    /\ today = ServedToday
    /\ hits = [ip \in IPs |-> 0]
    /\ requestCount = 0
    /\ entered = 0
    /\ passed = [ip \in IPs |-> 0]
    /\ rejected = [ip \in IPs |-> FALSE]
    /\ reqs = EmptyBag
    /\ vdate = Absent
    /\ vres = "pending"

InFlight == BagToSet(reqs)

Accept(r) == reqs (+) SetToBag({r})

Replace(r, r2) == (reqs (-) SetToBag({r})) (+) SetToBag({r2})

\* One inbound request, from the first middleware to the response or to the await of
\* the upstream call: limiter, logger, then the route that matches.
Request(ip, path, date, id) ==
    /\ BagCardinality(reqs) < MaxInFlight
    /\ path # "/api/apod" => date = Absent
    /\ LET r0 == Incoming(ip, path, date)
           h1 == IF LimiterApplies(path) THEN Increment(hits, ip) ELSE hits
       IN  /\ hits' = h1
           /\ IF LimiterApplies(path) /\ LimiterRejects(h1[ip])
              THEN /\ reqs' = Accept(Send(r0, 429, LimiterMessage))
                   /\ rejected' = [rejected EXCEPT ![ip] = TRUE]
                   /\ UNCHANGED <<requestCount, entered, passed>>
              ELSE LET r1 == Logger(r0, id)
                       v == validateDate(date, today)
                   IN  /\ passed' = [passed EXCEPT ![ip] = @ + 1]
                       /\ UNCHANGED rejected
                       /\ IF path = "/health"
                          THEN /\ reqs' = Accept(Send(r1, 200, HealthBody(r1, requestCount, env)))
                               /\ UNCHANGED <<requestCount, entered>>
                          ELSE IF path = "/api/apod" /\ NextCalled(v)
                          THEN /\ requestCount' = requestCountAfter(requestCount)
                               /\ entered' = entered + 1
                               /\ entered' <= MaxCount
                               /\ reqs' = Accept(HandlerEntry(RunValidateDate(r1, today)))
                          ELSE IF path = "/api/apod"
                          THEN /\ reqs' = Accept(RunValidateDate(r1, today))
                               /\ UNCHANGED <<requestCount, entered>>
                          ELSE IF path = "/"
                          THEN /\ reqs' = Accept(Send(r1, 200, RootBody(r1)))
                               /\ UNCHANGED <<requestCount, entered>>
                          ELSE /\ reqs' = Accept(Send(r1, 404, NotFoundBody(r1)))
                               /\ UNCHANGED <<requestCount, entered>>
    /\ UNCHANGED <<env, today, vdate, vres>>

\* axios.get resolves: the handler resumes after its await
UpstreamResolves(r, data) ==
    /\ r.pc = "fetching"
    /\ reqs' = Replace(r, HandleSuccess(r, data, env))
    /\ UNCHANGED <<env, today, hits, requestCount, entered, passed, rejected, vdate, vres>>

\* axios.get rejects (timeout after 10 s, transport failure, status outside 2xx)
UpstreamRejects(r, error) ==
    /\ r.pc = "fetching"
    /\ reqs' = Replace(r, HandleFailure(r, error, env))
    /\ UNCHANGED <<env, today, hits, requestCount, entered, passed, rejected, vdate, vres>>

\* the response is on the wire: the request context is discarded
Discard(r) ==
    /\ r.pc = "responded"
    /\ reqs' = reqs (-) SetToBag({r})
    /\ UNCHANGED <<env, today, hits, requestCount, entered, passed, rejected, vdate, vres>>

\* the fixed window of a client IP elapses: its counter starts again
WindowElapses(ip) ==
    /\ hits[ip] > 0
    /\ hits' = [hits EXCEPT ![ip] = 0]
    /\ passed' = [passed EXCEPT ![ip] = 0]
    /\ UNCHANGED <<env, today, requestCount, entered, rejected, reqs, vdate, vres>>

\* the client whose requests Spec follows, and the one SpecLimiter drives to the limit
Client == "10.0.0.1"

Next ==
    \/ \E path \in Paths, date \in ServedDates, id \in RequestIds :
          /\ hits[Client] < MaxBurst
          /\ passed[Client] < MaxBurst
          /\ Request(Client, path, date, id)
    \/ \E r \in InFlight, data \in SuccessBodies : UpstreamResolves(r, data)
    \/ \E r \in InFlight, error \in ServedErrors : UpstreamRejects(r, error)
    \/ \E r \in InFlight : Discard(r)
    \/ WindowElapses(Client)

Spec == Init /\ [][Next]_vars

-----------------------------------------------------------------------------
(* The limiter followed to its limit: one client sends request after request, each *)
(* answered before the next, while a second client sends a few.                    *)

Budget(ip) == IF ip = Client THEN MaxHits + MaxOver ELSE MaxBurst

LimiterDates == {Absent, DateString(1995, 6, 15)}

InitLimiter ==
    /\ env = "production"
    /\ today = ServedToday
    /\ hits = [ip \in IPs |-> 0]
    /\ requestCount = 0
    /\ entered = 0
    /\ passed = [ip \in IPs |-> 0]
    /\ rejected = [ip \in IPs |-> FALSE]
    /\ reqs = EmptyBag
    /\ vdate = Absent
    /\ vres = "pending"

NextLimiter ==
    \/ \E ip \in IPs, path \in Paths, date \in LimiterDates, id \in RequestIds :
          /\ reqs = EmptyBag
          /\ hits[ip] < Budget(ip)
          /\ passed[ip] < Budget(ip)
          /\ Request(ip, path, date, id)
    \/ \E r \in InFlight : UpstreamResolves(r, ApodBody)
    \/ \E r \in InFlight : Discard(r)
    \/ \E ip \in IPs : WindowElapses(ip)

SpecLimiter == InitLimiter /\ [][NextLimiter]_vars

-----------------------------------------------------------------------------
(* validateDate on its own *)

InitValidator ==
    /\ env = "production"
    /\ today \in Todays
    /\ hits = [ip \in IPs |-> 0]
    /\ requestCount = 0
    /\ entered = 0
    /\ passed = [ip \in IPs |-> 0]
    /\ rejected = [ip \in IPs |-> FALSE]
    /\ reqs = EmptyBag
    /\ vdate \in ValidatorInputs
    /\ vres = "pending"

CallValidateDate ==
    /\ vres = "pending"
    /\ vres' = validateDate(vdate, today)
    /\ UNCHANGED <<env, today, hits, requestCount, entered, passed, rejected, reqs, vdate>>

NextValidator == CallValidateDate

SpecValidator == InitValidator /\ [][NextValidator]_vars

-----------------------------------------------------------------------------
(* Vocabulary of the properties *)

Sent(r) == r.sent > 0

Body(r) == r.response.body

HasField(b, f) == f \in DOMAIN b

ErrorType(r) == IF HasField(Body(r), "error") THEN Body(r).error.type ELSE "none"

\* the validator ran on the request (the limiter let it through to the APOD route)
Validated(r) == r.path = "/api/apod" /\ r.requestId # NoId

\* a step in which a request arrives, and the request that arrived
Arrival == BagCardinality(reqs') = BagCardinality(reqs) + 1

Arrived == CHOOSE r \in BagToSet(reqs') : CopiesIn(r, reqs') > CopiesIn(r, reqs)

\* calendar order on (year, month, day)
CivilAfter(a, b) ==
    \/ a[1] > b[1]
    \/ a[1] = b[1] /\ a[2] > b[2]
    \/ a[1] = b[1] /\ a[2] = b[2] /\ a[3] > b[3]

CivilOf(s) == <<NumberAt(s, 1, 4), NumberAt(s, 6, 7), NumberAt(s, 9, 10)>>

OnCalendar(c) == c[2] \in 1..12 /\ c[3] \in 1..DaysInMonth(c[1], c[2])

\* the classifier table of the specification, row by row
TableRow(error) ==
    IF error.code = "ECONNABORTED" THEN <<"TIMEOUT_ERROR", 408>>
    ELSE IF error.code \in {"ENOTFOUND", "ECONNREFUSED"} THEN <<"NETWORK_ERROR", 503>>
    ELSE IF ~error.response.present THEN <<"UNKNOWN_ERROR", 500>>
    ELSE IF error.response.status = 429 THEN <<"RATE_LIMIT_ERROR", 429>>
    ELSE IF error.response.status = 400 THEN <<"VALIDATION_ERROR", 400>>
    ELSE IF error.response.status = 403 THEN <<"AUTH_ERROR", 403>>
    ELSE IF error.response.status >= 500 THEN <<"NASA_SERVER_ERROR", 503>>
    ELSE <<"NASA_API_ERROR", error.response.status>>

StageRank(st) ==
    IF st = "received" THEN 1
    ELSE IF st = "validating" THEN 2
    ELSE IF st = "fetching" THEN 3
    ELSE IF st \in {"success", "failed"} THEN 4
    ELSE 5

ForwardOnly(stages) == \A i \in 1..(Len(stages) - 1) : StageRank(stages[i]) < StageRank(stages[i + 1])

EchoesRequestId(r) ==
    \/ HasField(Body(r), "requestId") /\ Body(r).requestId = r.requestId
    \/ /\ HasField(Body(r), "error")
       /\ HasField(Body(r).error, "requestId")
       /\ Body(r).error.requestId = r.requestId

-----------------------------------------------------------------------------
(* C1: every response sent, whatever the route and outcome, carries exactly one of  *)
(* the fields data and error and a non-empty top-level requestId.                  *)
C1_EveryResponseIsEnvelope ==
    \A r \in InFlight :
        Sent(r) =>
            /\ HasField(Body(r), "data") # HasField(Body(r), "error")
            /\ HasField(Body(r), "requestId")
            /\ Body(r).requestId \notin {"", NoId}

(* C2: a request to /api/apod/:date whose date fails the validator is answered     *)
(* 400/VALIDATION_ERROR and never causes an upstream call; an upstream call is      *)
(* issued for a request only after its validation has passed.                      *)
C2_NoUpstreamCallBeforeValidation ==
    \A r \in InFlight :
        Validated(r) =>
            /\ validateDate(r.date, today) # "next" =>
                   /\ r.upstreamCalls = 0
                   /\ r.pc = "responded"
                   /\ r.response.status = 400
                   /\ ErrorType(r) = "VALIDATION_ERROR"
            /\ r.upstreamCalls > 0 =>
                   /\ validateDate(r.date, today) = "next"
                   /\ SubSeq(r.stages, 1, 3) = <<"received", "validating", "fetching">>

C2_Witness ==
    \E r \in InFlight :
        /\ Validated(r)
        /\ validateDate(r.date, today) # "next"
        /\ r.response.status = 400
        /\ r.upstreamCalls = 0

(* C3: for every upstream failure the classifier yields the (errorType, statusCode) *)
(* of the first matching row of the table, and the response sent to the client has  *)
(* that status and that type.                                                       *)
C3_ClassifiedAsTheTable ==
    \A r \in InFlight :
        (r.pc = "responded" /\ r.error # NoError /\ r.error.kind = "axios") =>
            /\ <<r.classified.errorType, r.classified.statusCode>> = TableRow(r.error)
            /\ r.response.status = TableRow(r.error)[2]
            /\ ErrorType(r) = TableRow(r.error)[1]

(* C4: once a client IP has made 100 requests inside its window, every further      *)
(* request of that IP in the window, on any path, is answered 429/RATE_LIMIT_ERROR  *)
(* without reaching the logger or a route: no request id, no upstream call, and the *)
(* request counter unchanged.                                                       *)
C4_OverLimitBypassesHandler ==
    [][ \A ip \in IPs :
          (Arrival /\ Arrived.ip = ip /\ hits[ip] >= 100) =>
              /\ Arrived.response.status = 429
              /\ ErrorType(Arrived) = "RATE_LIMIT_ERROR"
              /\ Arrived.pc = "responded"
              /\ Arrived.requestId = NoId
              /\ Arrived.upstreamCalls = 0
              /\ requestCount' = requestCount
              /\ entered' = entered ]_vars

C4_Witness ==
    \E r \in InFlight :
        /\ r.response.status = 429
        /\ r.path = "/health"
        /\ hits[r.ip] = 101
        /\ requestCount > 0

(* C5: the validator's rules in order, the first failing rule deciding: absent is   *)
(* valid; a string not of the shape dddd-dd-dd is rejected; a date after the        *)
(* current date is rejected; a date before 1995-06-16 is rejected; every other      *)
(* string of the shape, calendar-invalid ones included, is accepted. (For a string  *)
(* of the shape that is no calendar date, nothing is required when it sorts after   *)
(* today or before 1995-06-16.)                                                     *)
C5_DateRulesInOrder ==
    vres # "pending" =>
        IF vdate = Absent THEN vres = "next"
        ELSE IF ~dateRegex(vdate) THEN vres = "format"
        ELSE LET c == CivilOf(vdate)
                 t == <<today.y, today.m, today.d>>
             IN  IF CivilAfter(c, t) THEN (OnCalendar(c) => vres = "future")
                 ELSE IF CivilAfter(<<1995, 6, 16>>, c) THEN (OnCalendar(c) => vres = "tooEarly")
                 ELSE vres = "next"

(* C6: at most one upstream GET is issued over the life of a request, whatever its  *)
(* outcome; a failure ends the request without a second attempt.                   *)
C6_AtMostOneUpstreamCall ==
    \A r \in InFlight :
        /\ r.upstreamCalls <= 1
        /\ r.error # NoError => (r.upstreamCalls = 1 /\ r.pc = "responded")

C6_Witness ==
    \E r \in InFlight :
        /\ r.error # NoError
        /\ r.error.kind = "axios"
        /\ r.error.code = "ECONNABORTED"
        /\ r.upstreamCalls = 1
        /\ r.pc = "responded"

(* C7: a fault thrown in a route handler and not handled there, a fault raised      *)
(* while classifying an upstream failure included, is answered 500 with type        *)
(* INTERNAL_SERVER_ERROR; the answer holds the stack and the original message only  *)
(* when NODE_ENV is exactly 'development', otherwise the generic message, no stack. *)
C7_InternalFaultAnswer ==
    \A r \in InFlight :
        /\ r.classified.threw => r.fault # NoFault
        /\ r.fault # NoFault =>
              /\ r.pc = "responded"
              /\ r.response.status = 500
              /\ ErrorType(r) = "INTERNAL_SERVER_ERROR"
              /\ IF env = "development"
                 THEN /\ HasField(Body(r).error, "stack")
                      /\ Body(r).error.message = r.fault.message
                 ELSE /\ ~HasField(Body(r).error, "stack")
                      /\ Body(r).error.message = "Internal server error"

C7_Witness ==
    \E r \in InFlight :
        /\ r.classified.threw
        /\ r.fault.name = "TypeError"
        /\ env = "undefined"
        /\ r.response.status = 500
        /\ ~HasField(Body(r).error, "stack")

(* C8: a request to /api/apod/:date? only moves forward through received,           *)
(* validating, fetching, success or failed, responded; once answered it has been    *)
(* sent exactly one response, and that response echoes the request id assigned to   *)
(* the request.                                                                     *)
C8_OneResponseEchoingId ==
    \A r \in InFlight :
        Validated(r) =>
            /\ ForwardOnly(r.stages)
            /\ r.sent <= 1
            /\ r.pc = "responded" => (r.sent = 1 /\ EchoesRequestId(r))

(* C9: with requests served concurrently, each suspended only at its upstream call, *)
(* the request counter loses no update: it equals the number of requests that       *)
(* entered the APOD handler, and it never decreases.                                *)
C9_CounterLosesNoUpdate ==
    /\ [](requestCount = entered)
    /\ [][requestCount' >= requestCount]_vars

C9_Witness ==
    /\ requestCount = 2
    /\ \E r1, r2 \in InFlight :
          /\ r1.pc = "fetching"
          /\ r2.pc = "fetching"
          /\ r1 # r2 \/ CopiesIn(r1, reqs) = 2

(* C10: the limiter counts per client IP and per window: at most 100 requests of    *)
(* one IP get past it in a window, a request changes no other IP's count, and the   *)
(* first request of an IP's new window is accepted, also after a 429.               *)
C10_PerIpFixedWindow ==
    /\ [](\A ip \in IPs : passed[ip] <= 100)
    /\ [][ \A ip \in IPs :
             (Arrival /\ Arrived.ip = ip) =>
                 /\ \A other \in IPs \ {ip} : hits'[other] = hits[other]
                 /\ hits[ip] = 0 => Arrived.response.status # 429 ]_vars

C10_Witness ==
    \E r \in InFlight :
        /\ rejected[r.ip]
        /\ hits[r.ip] = 1
        /\ Sent(r)
        /\ r.response.status = 200

====
